---- MODULE Spec2Model ----
(***************************************************************************)
(* Verification model of the agent scripts of openai_agent_sdk_samples.    *)
(* The repository is a set of independent scripts; each script is one      *)
(* state machine here, with its own variables and its own specification:   *)
(*   SpecCS    06_CustomerService/main.py  (airline customer-service loop) *)
(*   SpecConv  0209_Result.py              (conversation continuation)     *)
(*   SpecGuard 0206_Guardrail.py, 0401_Guardrail.py (guardrail functions   *)
(*             and the test loops that run an agent behind them)           *)
(*   SpecOrch  0402_Orchestration.py       (code_orchestration)            *)
(*   SpecHist  0302_Handoff.py, 0201_Context.py, 0402_Orchestration.py     *)
(*             (bounded reads of a history list)                           *)
(*   SpecTrace 0303_Tracing.py             (the custom trace processors)   *)
(*   SpecLimit 0208_Runner.py              (the turn-limit guardrail)      *)
(*   SpecPar   0402_Orchestration.py       (parallel_orchestration)        *)
(*   SpecRag   sb-task-ragtest/01..03      (waiting on the hosted service) *)
(*   SpecDemo  0403_Model.py               (the demonstrations' summary)   *)
(* Runner.run is the imported SDK: its internal steps (message, tool call, *)
(* handoff, exception) are the environment's choices.                      *)
(***************************************************************************)
EXTENDS Integers, Sequences, FiniteSets, TLC

VARIABLES
    \* ---- 06_CustomerService/main.py
    cs_pc,            \* "input" | "running" | "crashed": position of main()
    current_agent,    \* main(): current_agent
    input_items,      \* main(): input_items
    context,          \* main(): context (AirlineAgentContext)
    cs_turn,          \* number of user messages read so far
    run_agent,        \* the agent the run in flight is currently at
    run_input,        \* the input list the run in flight was started with
    new_items,        \* result.new_items of the run in flight
    run_turns,        \* model turns taken by the run in flight
    active,           \* agents holding the conversation (handoff bookkeeping)
    assert_failed,    \* update_seat's assertion has failed at least once
    \* ---- 0209_Result.py, demonstrate_conversation_continuation
    conv_pc,              \* "loop" | "running" | "ended"
    turn_num,             \* turn_num of the for loop (0 before the first turn)
    current_input,        \* current_input: None, or the list kept for the next turn
    conv_run_input,       \* run_input of the run in flight
    conversation_history, \* user_context.conversation_history
    conv_errors,          \* the error lines printed by the except clause
    conv_before,          \* current_input and conversation_history when the turn began
    \* ---- 0206_Guardrail.py / 0401_Guardrail.py: guardrails and their test loop
    g_script,         \* "0206" | "0401": the script that runs
    g_pc,             \* "next_case" | "input_check" | "agent" | "output_check" | "done"
    g_case,           \* index of the test case in hand (0 before the first)
    g_in_eval,        \* what the input guardrail's evaluator agent did
    g_in,             \* GuardrailFunctionOutput of the input guardrail
    g_out_eval,       \* what the output guardrail's evaluator agent did
    g_out,            \* GuardrailFunctionOutput of the output guardrail
    g_log,            \* what the test loop printed for each finished test case
    \* ---- 0402_Orchestration.py: OrchestrationEngine.code_orchestration
    orch_pc,          \* "idle" | "classifying" | "handling" | "evaluating" |
                      \* "improving" | "returned": the await the call is at
    classification,   \* classification (category, complexity) once step 1 is done
    orch_agent,       \* the agent of the Runner.run in flight
    results,          \* results: which keys are set, and the assessment's score
    execution_log,    \* self.execution_log
    orch_steps,       \* the steps completed so far, in order
    orch_return,      \* the dictionary code_orchestration returned
    \* ---- bounded reads of a history list (0302, 0201, 0402)
    hist,             \* the stored list, oldest entry first
    hist_is_tuple,    \* whether HandoffInputData.input_history is a tuple (else a str)
    hist_op,          \* the read that was applied ("none" before it)
    hist_out,         \* what the read returned
    \* ---- 0303_Tracing.py: the trace processors main() registers
    tr_pc,            \* "idle" | "tracing" | "failed" | "done": position of main()
    tr_data,          \* JSONExportProcessor.data
    tr_custom,        \* CustomTraceProcessor.traces and .spans
    tr_file,          \* contents of the file JSONExportProcessor writes
    tr_open_spans,    \* ids of the spans started and not yet ended
    tr_traces,        \* number of traces started so far
    tr_spans,         \* number of spans started so far
    tr_turn,          \* how the traced run that ended last came out
    tr_saved,         \* JSONExportProcessor.shutdown has printed that the data is saved
    \* ---- 0208_Runner.py: the turn-limit guardrail
    tl_pc,            \* "idle" | "running": demonstrate_run_with_config is inside Runner.run
    conversation_count,   \* UserContext.conversation_count
    tl_trip_log,      \* tripwire_triggered of each guardrail invocation, in order
    tl_turns,         \* model turns the run in flight has used
    tl_result,        \* what the last demonstrate_run_with_config call ended with
    \* ---- 0402_Orchestration.py: parallel_orchestration
    par_pc,           \* "idle" | "gathering": position of parallel_orchestration
    par_runs,         \* what asyncio.gather holds for each of the three runs
    par_return,       \* the dict the last call returned
    par_log,          \* what the calls appended to execution_log
    par_calls,        \* calls of parallel_orchestration on the engine so far
    \* ---- sb-task-ragtest: the wait loops
    rag_fn,           \* the function that was called last
    rag_pc,           \* "idle" | "polling" | "returned"
    rag_status,       \* the status the function saw last ("none" before the first)
    rag_polls,        \* retrieve calls of the current wait loop
    rag_return,       \* what the function returned
    \* ---- 0403_Model.py: main()
    dm_next,          \* index of the demonstration main() runs next
    results_summary,  \* main(): results_summary
    dm_clean,         \* per demonstration: it ran to its end and nothing in it raised
    successful_demos, \* main(): successful_demos
    dm_printed        \* the summary line has been printed

csVars == <<cs_pc, current_agent, input_items, context, cs_turn, run_agent,
            run_input, new_items, run_turns, active, assert_failed>>

convVars == <<conv_pc, turn_num, current_input, conv_run_input, conversation_history,
              conv_errors, conv_before>>

guardVars == <<g_script, g_pc, g_case, g_in_eval, g_in, g_out_eval, g_out, g_log>>

orchVars == <<orch_pc, classification, orch_agent, results, execution_log, orch_steps,
              orch_return>>

histVars == <<hist, hist_is_tuple, hist_op, hist_out>>

traceVars == <<tr_pc, tr_data, tr_custom, tr_file, tr_open_spans, tr_traces, tr_spans,
               tr_turn, tr_saved>>

limitVars == <<tl_pc, conversation_count, tl_trip_log, tl_turns, tl_result>>

parVars == <<par_pc, par_runs, par_return, par_log, par_calls>>

ragVars == <<rag_fn, rag_pc, rag_status, rag_polls, rag_return>>

demoVars == <<dm_next, results_summary, dm_clean, successful_demos, dm_printed>>

vars == <<csVars, convVars, guardVars, orchVars, histVars, traceVars, limitVars, parVars, ragVars, demoVars>>

\* what the steps of one script leave alone: the variables of the other scripts
notCS == <<convVars, guardVars, orchVars, histVars, traceVars, limitVars, parVars, ragVars, demoVars>>
notConv == <<csVars, guardVars, orchVars, histVars, traceVars, limitVars, parVars, ragVars, demoVars>>
notGuard == <<csVars, convVars, orchVars, histVars, traceVars, limitVars, parVars, ragVars, demoVars>>
notOrch == <<csVars, convVars, guardVars, histVars, traceVars, limitVars, parVars, ragVars, demoVars>>
notHist == <<csVars, convVars, guardVars, orchVars, traceVars, limitVars, parVars, ragVars, demoVars>>
notTrace == <<csVars, convVars, guardVars, orchVars, histVars, limitVars, parVars, ragVars, demoVars>>
notLimit == <<csVars, convVars, guardVars, orchVars, histVars, traceVars, parVars, ragVars, demoVars>>
notPar == <<csVars, convVars, guardVars, orchVars, histVars, traceVars, limitVars, ragVars, demoVars>>
notRag == <<csVars, convVars, guardVars, orchVars, histVars, traceVars, limitVars, parVars, demoVars>>
notDemo == <<csVars, convVars, guardVars, orchVars, histVars, traceVars, limitVars, parVars, ragVars>>

\* ---------------------------------------------------------------- bounds
MaxTurnsCS == 2      \* user messages per customer-service session
MaxRunSteps == 2     \* non-final steps (tool calls, handoffs) of one run
MaxToolCalls == 2    \* tool calls of one run of the conversation agent
MaxHistLen == 11     \* entries of a stored history list
MaxTraces == 2       \* traces started while the processors are registered
MaxSpans == 2        \* spans started while the processors are registered
MaxGuardCalls == 12  \* invocations of turn_limit_guardrail on one UserContext
MaxParCalls == 2     \* calls of parallel_orchestration on one engine
MaxPolls == 3        \* retrieve calls of one wait loop

\* ------------------------------------------------------- general helpers
IsPrefix(s, t) == Len(s) <= Len(t) /\ SubSeq(t, 1, Len(s)) = s

Min(a, b) == IF a <= b THEN a ELSE b

\* Python's s[:n] and s[-n:] for n > 0
FirstN(s, n) == SubSeq(s, 1, Min(n, Len(s)))
LastN(s, n) == SubSeq(s, Len(s) - Min(n, Len(s)) + 1, Len(s))

\* ============================================================ SpecCS
TriageAgent == "Triage Agent"
FAQAgent == "FAQ Agent"
SeatBookingAgent == "Seat Booking Agent"
Agents06 == {TriageAgent, FAQAgent, SeatBookingAgent}

\* agent.handoffs after the mutual-handoff appends
Handoffs(a) == IF a = TriageAgent THEN {FAQAgent, SeatBookingAgent} ELSE {TriageAgent}

\* agent.tools
Tools(a) ==
    CASE a = FAQAgent -> {"faq_lookup_tool"}
      [] a = SeatBookingAgent -> {"update_seat"}
      [] OTHER -> {}

AirlineAgentContext ==
    [passenger_name |-> "None", confirmation_number |-> "None",
     seat_number |-> "None", flight_number |-> "None"]

\* on_seat_booking_handoff: the hook of the Triage -> Seat Booking handoff
on_seat_booking_handoff(ctx) == [ctx EXCEPT !.flight_number = "FLT"]

\* the handoff hook that runs for a handoff from agent a to agent b
OnHandoffSkipsHook(a, b, ctx) == ctx
OnHandoff(a, b, ctx) ==
    IF a = TriageAgent /\ b = SeatBookingAgent THEN on_seat_booking_handoff(ctx) ELSE ctx

\* update_seat: the context after the tool ran (the two writes precede the assert)
update_seat(ctx) == [ctx EXCEPT !.confirmation_number = "CONF", !.seat_number = "SEAT"]

\* a run item, as result.new_items holds it (it knows its agent)
RunItem(type, agent, turn) == [type |-> type, agent |-> agent, turn |-> turn]
\* an input item, as input_items holds it (role and content only)
UserItem(turn) == [role |-> "user", turn |-> turn]
ToInputItem(it) == [role |-> it.type, turn |-> it.turn]
ToInputItems(items) == [i \in DOMAIN items |-> ToInputItem(items[i])]

\* result.to_input_list(): the run's input followed by its new items as input items
ToInputListDropsInput(input, items) == ToInputItems(items)
ToInputList(input, items) == input \o ToInputItems(items)

\* the agents holding the conversation after a handoff from a to b
HandoffSwitchKeepsSource(act, a, b) == act \cup {b}
HandoffSwitch(act, a, b) == (act \ {a}) \cup {b}

\* main()'s while loop: input() is reached at the start and again only after the
\* awaited Runner.run has returned and its result has been kept
ReadsInputWhileRunning(pc) == pc \in {"input", "running"}
ReadsInput(pc) == pc = "input"

\* main(), line 170: the next turn starts at result.last_agent
NextTurnAgentRestartsAtTriage(last_agent) == TriageAgent
NextTurnAgent(last_agent) == last_agent

\* ============================================================ SpecConv
\* len(conversation_turns)
NumConvTurns == 3

NoneInput == [isNone |-> TRUE, items |-> <<>>]
SomeInput(items) == [isNone |-> FALSE, items |-> items]

\* what Runner.run does: return a result, or raise one of the SDK's exceptions
GuardExceptions == {"InputGuardrailTripwireTriggered", "OutputGuardrailTripwireTriggered"}
RunExceptions == GuardExceptions \cup {"MaxTurnsExceeded", "Exception"}

\* run_input of a turn: the bare user message on the first turn (the SDK makes it
\* one user item), else the kept list plus the new user message
RunInput(cur, turn) ==
    IF cur.isNone THEN <<UserItem(turn)>> ELSE cur.items \o <<UserItem(turn)>>

\* new_items of a run of the conversation agent that called get_current_time k times
RECURSIVE ToolItems(_, _, _)
ToolItems(k, agent, turn) ==
    IF k = 0 THEN <<>>
    ELSE <<RunItem("tool_call", agent, turn), RunItem("tool_output", agent, turn)>>
         \o ToolItems(k - 1, agent, turn)
ConvNewItems(k, turn) ==
    Append(ToolItems(k, "Conversation Agent", turn),
           RunItem("message", "Conversation Agent", turn))

HistoryEntry(who, turn) == [who |-> who, turn |-> turn]

\* user_context.conversation_history after a turn: both lines are appended after
\* Runner.run has returned, inside the try block
HistoryAfterTurnRecordsUserFirst(h, turn, returned) ==
    IF returned
    THEN h \o <<HistoryEntry("User", turn), HistoryEntry("Agent", turn)>>
    ELSE Append(h, HistoryEntry("User", turn))
HistoryAfterTurn(h, turn, returned) ==
    IF returned
    THEN h \o <<HistoryEntry("User", turn), HistoryEntry("Agent", turn)>>
    ELSE h

\* current_input after a turn: result.to_input_list() when the run returned
InputAfterTurnKeepsFailedInput(cur, input, items, returned) ==
    IF returned THEN SomeInput(ToInputList(input, items)) ELSE SomeInput(input)
InputAfterTurn(cur, input, items, returned) ==
    IF returned THEN SomeInput(ToInputList(input, items)) ELSE cur

InitConv ==
    /\ conv_pc = "loop"
    /\ turn_num = 0
    /\ current_input = NoneInput
    /\ conv_run_input = <<>>
    /\ conversation_history = <<>>
    /\ conv_errors = <<>>
    /\ conv_before = [input |-> NoneInput, history |-> <<>>]

\* lines 412-432: next element of conversation_turns, build run_input, call Runner.run
Conv_StartTurn ==
    /\ conv_pc = "loop"
    /\ turn_num < NumConvTurns
    /\ turn_num' = turn_num + 1
    /\ conv_run_input' = RunInput(current_input, turn_num + 1)
    /\ conv_before' = [input |-> current_input, history |-> conversation_history]
    /\ conv_pc' = "running"
    /\ UNCHANGED <<current_input, conversation_history, conv_errors>>
    /\ UNCHANGED notConv

\* lines 434-442: Runner.run returned
Conv_RunReturns ==
    /\ conv_pc = "running"
    /\ \E k \in 0..MaxToolCalls :
        current_input' = InputAfterTurn(current_input, conv_run_input,
                                        ConvNewItems(k, turn_num), TRUE)
    /\ conversation_history' = HistoryAfterTurn(conversation_history, turn_num, TRUE)
    /\ conv_pc' = "loop"
    /\ UNCHANGED <<turn_num, conv_run_input, conv_errors, conv_before>>
    /\ UNCHANGED notConv

\* lines 444-446: Runner.run raised; the error is printed and the loop is left
Conv_RunRaises ==
    /\ conv_pc = "running"
    /\ \E e \in RunExceptions :
        conv_errors' = Append(conv_errors, [turn |-> turn_num, error |-> e])
    /\ current_input' = InputAfterTurn(current_input, conv_run_input, <<>>, FALSE)
    /\ conversation_history' = HistoryAfterTurn(conversation_history, turn_num, FALSE)
    /\ conv_pc' = "ended"
    /\ UNCHANGED <<turn_num, conv_run_input, conv_before>>
    /\ UNCHANGED notConv

\* lines 448-450: the for loop is exhausted and the summary is printed
Conv_LoopEnds ==
    /\ conv_pc = "loop"
    /\ turn_num = NumConvTurns
    /\ conv_pc' = "ended"
    /\ UNCHANGED <<turn_num, current_input, conv_run_input, conversation_history,
                   conv_errors, conv_before>>
    /\ UNCHANGED notConv

NextConv ==
    \/ Conv_StartTurn
    \/ Conv_RunReturns
    \/ Conv_RunRaises
    \/ Conv_LoopEnds

\* ============================================================ SpecGuard
\* len(test_cases), in both scripts
NumGuardCases == 3
\* the confidence_score both input guardrails compare with, in hundredths (0.7)
ConfidenceThreshold == 70
\* confidence scores the evaluator may report, in hundredths
Scores == {50, 70, 90}
Severities == {"low", "medium", "high"}

NoEval == [raised |-> FALSE, flagged |-> FALSE, score |-> 0, severity |-> "low"]
NoOutput == [ran |-> FALSE, tripwire_triggered |-> FALSE, output_info |-> "none"]

\* what Runner.run(guardrail_agent, ...) can do inside an input guardrail: raise, or
\* return is_inappropriate / is_math_homework with a confidence_score
InputEvals ==
    {[raised |-> TRUE, flagged |-> FALSE, score |-> 0, severity |-> "low"]}
    \cup {[raised |-> FALSE, flagged |-> f, score |-> c, severity |-> "low"] :
            f \in BOOLEAN, c \in Scores}
\* the same inside an output guardrail: raise, or return a finding (not
\* is_professional / is_inappropriate) with a severity
OutputEvals ==
    {[raised |-> TRUE, flagged |-> FALSE, score |-> 0, severity |-> "low"]}
    \cup {[raised |-> FALSE, flagged |-> f, score |-> 0, severity |-> v] :
            f \in BOOLEAN, v \in Severities}

GuardOutput(info, trip) == [ran |-> TRUE, tripwire_triggered |-> trip, output_info |-> info]

\* 0206 inappropriate_content_guardrail (input)
inappropriate_content_guardrail_AtThreshold(ev) ==
    IF ev.raised
    THEN GuardOutput("error", FALSE)
    ELSE GuardOutput("output", ev.flagged /\ ev.score >= ConfidenceThreshold)
inappropriate_content_guardrail(ev) ==
    IF ev.raised
    THEN GuardOutput("error", FALSE)
    ELSE GuardOutput("output", ev.flagged /\ ev.score > ConfidenceThreshold)

\* 0206 professionality_guardrail (output); flagged is "not is_professional"
professionality_guardrail(ev) ==
    IF ev.raised
    THEN GuardOutput("error", FALSE)
    ELSE GuardOutput("output", ev.flagged /\ ev.severity = "high")

\* 0401 math_homework_input_guardrail (input)
math_homework_input_guardrail_FailsOpen(ev) ==
    IF ev.raised
    THEN GuardOutput("error", FALSE)
    ELSE GuardOutput("output", ev.flagged /\ ev.score >= ConfidenceThreshold)
math_homework_input_guardrail(ev) ==
    IF ev.raised
    THEN GuardOutput("error", TRUE)
    ELSE GuardOutput("output", ev.flagged /\ ev.score >= ConfidenceThreshold)

\* 0401 inappropriate_content_output_guardrail (output)
inappropriate_content_output_guardrail(ev) ==
    IF ev.raised
    THEN GuardOutput("error", TRUE)
    ELSE GuardOutput("output", ev.flagged /\ ev.severity \in {"medium", "high"})

\* the agent's input_guardrails / output_guardrails in the script that runs
InputGuardrail(script, ev) ==
    IF script = "0206" THEN inappropriate_content_guardrail(ev)
    ELSE math_homework_input_guardrail(ev)
OutputGuardrail(script, ev) ==
    IF script = "0206" THEN professionality_guardrail(ev)
    ELSE inappropriate_content_output_guardrail(ev)

InitGuard ==
    /\ g_script \in {"0206", "0401"}
    /\ g_pc = "next_case"
    /\ g_case = 0
    /\ g_in_eval = NoEval
    /\ g_in = NoOutput
    /\ g_out_eval = NoEval
    /\ g_out = NoOutput
    /\ g_log = <<>>

\* the for loop takes the next test case and calls Runner.run
G_StartCase ==
    /\ g_pc = "next_case"
    /\ g_case < NumGuardCases
    /\ g_case' = g_case + 1
    /\ g_in_eval' = NoEval
    /\ g_in' = NoOutput
    /\ g_out_eval' = NoEval
    /\ g_out' = NoOutput
    /\ g_pc' = "input_check"
    /\ UNCHANGED <<g_script, g_log>>
    /\ UNCHANGED notGuard

\* the run calls the input guardrail; a triggered tripwire makes Runner.run raise
\* InputGuardrailTripwireTriggered, which the test loop catches
G_InputGuardrail ==
    /\ g_pc = "input_check"
    /\ \E ev \in InputEvals :
        /\ g_in_eval' = ev
        /\ g_in' = InputGuardrail(g_script, ev)
    /\ IF g_in'.tripwire_triggered
       THEN /\ g_log' = Append(g_log, "input_guardrail_triggered")
            /\ g_pc' = "next_case"
       ELSE /\ g_log' = g_log
            /\ g_pc' = "agent"
    /\ UNCHANGED <<g_script, g_case, g_out_eval, g_out>>
    /\ UNCHANGED notGuard

\* the customer-support agent produces its final output
G_AgentReturns ==
    /\ g_pc = "agent"
    /\ g_pc' = "output_check"
    /\ UNCHANGED <<g_script, g_case, g_in_eval, g_in, g_out_eval, g_out, g_log>>
    /\ UNCHANGED notGuard

\* the agent's run raises; the test loop's last except clause prints the error
G_AgentRaises ==
    /\ g_pc = "agent"
    /\ g_log' = Append(g_log, "unexpected_error")
    /\ g_pc' = "next_case"
    /\ UNCHANGED <<g_script, g_case, g_in_eval, g_in, g_out_eval, g_out>>
    /\ UNCHANGED notGuard

\* the run calls the output guardrail; a triggered tripwire makes Runner.run raise
\* OutputGuardrailTripwireTriggered, else the result is printed
G_OutputGuardrail ==
    /\ g_pc = "output_check"
    /\ \E ev \in OutputEvals :
        /\ g_out_eval' = ev
        /\ g_out' = OutputGuardrail(g_script, ev)
    /\ IF g_out'.tripwire_triggered
       THEN g_log' = Append(g_log, "output_guardrail_triggered")
       ELSE g_log' = Append(g_log, "success")
    /\ g_pc' = "next_case"
    /\ UNCHANGED <<g_script, g_case, g_in_eval, g_in>>
    /\ UNCHANGED notGuard

\* the test cases are exhausted
G_Finish ==
    /\ g_pc = "next_case"
    /\ g_case = NumGuardCases
    /\ g_pc' = "done"
    /\ UNCHANGED <<g_script, g_case, g_in_eval, g_in, g_out_eval, g_out, g_log>>
    /\ UNCHANGED notGuard

NextGuard ==
    \/ G_StartCase
    \/ G_InputGuardrail
    \/ G_AgentReturns
    \/ G_AgentRaises
    \/ G_OutputGuardrail
    \/ G_Finish

\* ============================================================ SpecOrch
\* TaskCategory
TaskCategory == {"research", "writing", "analysis", "creative", "technical"}
\* classification.complexity is a free string: the three documented values and any other
Complexities == {"low", "medium", "high", "other"}
\* classification.confidence, in hundredths (a float between 0.0 and 1.0)
Confidences == {30, 50, 90}
\* QualityAssessment.overall_score, in tenths
QualityScores == {55, 70, 85}
\* the overall_score below which step 4 runs, in tenths (7.0)
QualityThreshold == 70

TaskClassifier == "Task Classifier"
ResearchSpecialist == "Research Specialist"
WritingSpecialist == "Writing Specialist"
AnalysisSpecialist == "Analysis Specialist"
QualityEvaluator == "Quality Evaluator"

\* the categories code_orchestration has a branch of its own for
RegisteredCategories == {"research", "writing", "analysis"}

\* the if/elif/else chain of step 2 (and again of step 4): the specialist of a category
SelectSpecialistNoDefault(category) ==
    CASE category = "research" -> ResearchSpecialist
      [] category = "writing" -> WritingSpecialist
      [] category = "analysis" -> AnalysisSpecialist
      [] OTHER -> "none"
SelectSpecialist(category) ==
    CASE category = "research" -> ResearchSpecialist
      [] category = "writing" -> WritingSpecialist
      [] category = "analysis" -> AnalysisSpecialist
      [] OTHER -> WritingSpecialist

\* the category steps 2 and 4 dispatch on: classification.category as the classifier
\* returned it; classification.confidence is not read
DispatchCategoryDefaultsOnLowConfidence(cls) ==
    IF cls.confidence < 50 THEN "writing" ELSE cls.category
DispatchCategory(cls) == cls.category

\* step 3 runs for these complexities
NeedsEvaluationHighOnly(complexity) == complexity = "high"
NeedsEvaluation(complexity) == complexity \in {"medium", "high"}

\* results["quality_assessment"]: not set yet, None, or an assessment with its score
UnsetAssessment == [key |-> FALSE, isNone |-> TRUE, overall_score |-> 0]
NoneAssessment == [key |-> TRUE, isNone |-> TRUE, overall_score |-> 0]
Assessment(score) == [key |-> TRUE, isNone |-> FALSE, overall_score |-> score]

\* step 4 runs when an assessment was made and its score is below the threshold
NeedsImprovementIgnoresScore(res) ==
    /\ res.quality_assessment.key
    /\ ~res.quality_assessment.isNone
NeedsImprovement(res) ==
    /\ res.quality_assessment.key
    /\ ~res.quality_assessment.isNone
    /\ res.quality_assessment.overall_score < QualityThreshold

\* where the call stands once the specialist of step 2 has returned
AfterSpecialistImprovesUnassessed(complexity) ==
    IF NeedsEvaluation(complexity) THEN "evaluating" ELSE "improving"
AfterSpecialist(complexity) ==
    IF NeedsEvaluation(complexity) THEN "evaluating" ELSE "returned"

\* where the call stands once the improvement run of step 4 has returned: step 4 is
\* an if, not a loop
AfterImprovementLoops(res) == IF NeedsImprovement(res) THEN "improving" ELSE "returned"
AfterImprovement(res) == "returned"

NoClassification == [category |-> "none", complexity |-> "none", confidence |-> 0]
EmptyResults ==
    [classification |-> FALSE, specialist_output |-> FALSE,
     quality_assessment |-> UnsetAssessment, improved_output |-> FALSE]
NoReturn == [success |-> FALSE, error |-> "none", returned |-> FALSE]
SuccessReturn == [success |-> TRUE, error |-> "none", returned |-> TRUE]
\* the except clause: "error": str(e), "success": False
ErrorReturnPropagates == [success |-> FALSE, error |-> "none", returned |-> FALSE]
ErrorReturnHidesException == [success |-> FALSE, error |-> "internal_error", returned |-> TRUE]
ErrorReturn == [success |-> FALSE, error |-> "exception_text", returned |-> TRUE]

InitOrch ==
    /\ orch_pc = "idle"
    /\ classification = NoClassification
    /\ orch_agent = "none"
    /\ results = EmptyResults
    /\ execution_log = <<>>
    /\ orch_steps = <<>>
    /\ orch_return = NoReturn

\* the call, up to the await of step 1
Orch_Start ==
    /\ orch_pc = "idle"
    /\ execution_log' = Append(execution_log, "=== Code Orchestration Start ===")
    /\ orch_agent' = TaskClassifier
    /\ orch_pc' = "classifying"
    /\ UNCHANGED <<classification, results, orch_steps, orch_return>>
    /\ UNCHANGED notOrch

\* step 1 returns a classification; step 2 picks the specialist and awaits its run
Orch_Classified ==
    /\ orch_pc = "classifying"
    /\ \E c \in TaskCategory, x \in Complexities, f \in Confidences :
        classification' = [category |-> c, complexity |-> x, confidence |-> f]
    /\ orch_agent' = SelectSpecialist(DispatchCategory(classification'))
    /\ results' = [results EXCEPT !.classification = TRUE]
    /\ execution_log' = Append(execution_log, "Task classified as")
    /\ orch_steps' = Append(orch_steps, "classified")
    /\ orch_pc' = "handling"
    /\ UNCHANGED orch_return
    /\ UNCHANGED notOrch

\* the specialist of step 2 returns; step 3 awaits the evaluator, or is skipped, and
\* then step 4 finds no assessment and the call returns
Orch_Handled ==
    /\ orch_pc = "handling"
    /\ orch_steps' = Append(orch_steps, "handled")
    /\ orch_pc' = AfterSpecialist(classification.complexity)
    /\ IF NeedsEvaluation(classification.complexity)
       THEN /\ results' = [results EXCEPT !.specialist_output = TRUE]
            /\ orch_agent' = QualityEvaluator
            /\ UNCHANGED <<execution_log, orch_return>>
       ELSE /\ results' = [results EXCEPT !.specialist_output = TRUE,
                                          !.quality_assessment = NoneAssessment]
            /\ IF orch_pc' = "returned"
               THEN /\ orch_agent' = "none"
                    /\ execution_log' = Append(execution_log,
                                               "Code Orchestration completed successfully")
                    /\ orch_return' = SuccessReturn
               ELSE /\ orch_agent' = SelectSpecialist(DispatchCategory(classification))
                    /\ UNCHANGED <<execution_log, orch_return>>
    /\ UNCHANGED classification
    /\ UNCHANGED notOrch

\* the evaluator of step 3 returns an assessment; step 4 awaits the improvement run
\* when the score is low, else the call returns
Orch_Evaluated ==
    /\ orch_pc = "evaluating"
    /\ \E score \in QualityScores :
        results' = [results EXCEPT !.quality_assessment = Assessment(score)]
    /\ orch_steps' = Append(orch_steps, "evaluated")
    /\ IF NeedsImprovement(results')
       THEN /\ orch_agent' = SelectSpecialist(DispatchCategory(classification))
            /\ execution_log' = Append(execution_log, "Quality evaluation completed")
            /\ orch_pc' = "improving"
            /\ UNCHANGED orch_return
       ELSE /\ orch_agent' = "none"
            /\ execution_log' = execution_log \o
                   <<"Quality evaluation completed",
                     "Code Orchestration completed successfully">>
            /\ orch_pc' = "returned"
            /\ orch_return' = SuccessReturn
    /\ UNCHANGED classification
    /\ UNCHANGED notOrch

\* the improvement run of step 4 returns, and the call returns
Orch_Improved ==
    /\ orch_pc = "improving"
    /\ results' = [results EXCEPT !.improved_output = TRUE]
    /\ orch_steps' = Append(orch_steps, "improved")
    /\ orch_pc' = AfterImprovement(results)
    /\ IF orch_pc' = "returned"
       THEN /\ orch_agent' = "none"
            /\ execution_log' = execution_log \o
                   <<"Improvement iteration completed",
                     "Code Orchestration completed successfully">>
            /\ orch_return' = SuccessReturn
       ELSE /\ orch_agent' = SelectSpecialist(DispatchCategory(classification))
            /\ execution_log' = Append(execution_log, "Improvement iteration completed")
            /\ UNCHANGED orch_return
    /\ UNCHANGED classification
    /\ UNCHANGED notOrch

\* the Runner.run in flight raises: the except clause logs the error and returns it
Orch_RunRaises ==
    /\ orch_pc \in {"classifying", "handling", "evaluating", "improving"}
    /\ execution_log' = Append(execution_log, "Code Orchestration error")
    /\ orch_steps' = Append(orch_steps, "failed")
    /\ orch_return' = ErrorReturn
    /\ orch_agent' = "none"
    /\ orch_pc' = "returned"
    /\ UNCHANGED <<classification, results>>
    /\ UNCHANGED notOrch

NextOrch ==
    \/ Orch_Start
    \/ Orch_Classified
    \/ Orch_Handled
    \/ Orch_Evaluated
    \/ Orch_Improved
    \/ Orch_RunRaises

\* ============================================================ SpecHist
\* input_history[-3:] of filter_summary_only
SummaryLimit == 3
\* purchase_history[:5] of check_purchase_history
PurchaseLimit == 5
\* get_execution_log()[-10:] of demonstrate_orchestrations
LogLimit == 10

HistEntries == {1, 2}
HistLists == UNION {[1..n -> HistEntries] : n \in 0..MaxHistLen}

\* 0302 filter_summary_only: the input_history handed to the next agent
filter_summary_only(isTuple, input_history) ==
    IF isTuple THEN LastN(input_history, SummaryLimit) ELSE input_history

\* 0201 check_purchase_history: the purchases the tool's answer lists
check_purchase_history(purchase_history) ==
    IF purchase_history = <<>> THEN <<>> ELSE FirstN(purchase_history, PurchaseLimit)

\* 0402 demonstrate_orchestrations: the log entries that are printed
execution_log_tail(log) == LastN(log, LogLimit)

\* the limit each read applies
HistLimit(op) ==
    CASE op = "filter_summary_only" -> SummaryLimit
      [] op = "check_purchase_history" -> PurchaseLimit
      [] OTHER -> LogLimit

InitHist ==
    /\ hist \in HistLists
    /\ hist_is_tuple \in BOOLEAN
    /\ hist_op = "none"
    /\ hist_out = <<>>

Hist_FilterSummaryOnly ==
    /\ hist_op = "none"
    /\ hist_op' = "filter_summary_only"
    /\ hist_out' = filter_summary_only(hist_is_tuple, hist)
    /\ UNCHANGED <<hist, hist_is_tuple>>
    /\ UNCHANGED notHist

Hist_CheckPurchaseHistory ==
    /\ hist_op = "none"
    /\ hist_is_tuple
    /\ hist_op' = "check_purchase_history"
    /\ hist_out' = check_purchase_history(hist)
    /\ UNCHANGED <<hist, hist_is_tuple>>
    /\ UNCHANGED notHist

Hist_ExecutionLogTail ==
    /\ hist_op = "none"
    /\ hist_is_tuple
    /\ hist_op' = "execution_log_tail"
    /\ hist_out' = execution_log_tail(hist)
    /\ UNCHANGED <<hist, hist_is_tuple>>
    /\ UNCHANGED notHist

NextHist ==
    \/ Hist_FilterSummaryOnly
    \/ Hist_CheckPurchaseHistory
    \/ Hist_ExecutionLogTail

\* ============================================================ SpecTrace
\* an entry of JSONExportProcessor.data["traces"] / ["spans"] (the timestamp is left out)
TraceEvent(event, id) == [event |-> event, trace_id |-> id]
SpanEvent(event, id, trace) == [event |-> event, span_id |-> id, trace_id |-> trace]

EmptyData == [traces |-> <<>>, spans |-> <<>>]
\* the file before the first write, and a file that was opened for writing (truncated)
\* by a write that then failed
NoFile == [written |-> FALSE, complete |-> FALSE, data |-> EmptyData]
PartialFile == [written |-> TRUE, complete |-> FALSE, data |-> EmptyData]
FileOf(data) == [written |-> TRUE, complete |-> TRUE, data |-> data]

\* what open(self.filename, 'w') and json.dump can do: succeed, fail at the open (the
\* file is left as it was), or fail in the dump (the file is left truncated)
SinkOutcomes == {"ok", "open_fails", "write_fails"}
\* what the SDK's processor dispatch does with an exception a processor raises: it is
\* either logged and dropped or left to propagate into the traced run
DispatchOutcomes == {"swallowed", "propagated"}

\* JSONExportProcessor.on_trace_end, the write: the file afterwards
WriteFile(file, data, sink) ==
    CASE sink = "ok" -> FileOf(data)
      [] sink = "open_fails" -> file
      [] OTHER -> PartialFile

\* JSONExportProcessor.on_trace_end raises exactly when its write fails: the with
\* block has no handler
on_trace_end_raises(sink) == sink # "ok"

InitTrace ==
    /\ tr_pc = "idle"
    /\ tr_data = EmptyData
    /\ tr_custom = EmptyData
    /\ tr_file = NoFile
    /\ tr_open_spans = {}
    /\ tr_traces = 0
    /\ tr_spans = 0
    /\ tr_turn = "none"
    /\ tr_saved = FALSE

\* a traced run starts: on_trace_start of both processors
Tr_TraceStart ==
    /\ tr_pc = "idle"
    /\ tr_traces < MaxTraces
    /\ tr_traces' = tr_traces + 1
    /\ tr_data' = [tr_data EXCEPT !.traces = Append(@, TraceEvent("start", tr_traces + 1))]
    /\ tr_custom' = [tr_custom EXCEPT
                        !.traces = Append(@, TraceEvent("trace_start", tr_traces + 1))]
    /\ tr_pc' = "tracing"
    /\ UNCHANGED <<tr_file, tr_open_spans, tr_spans, tr_turn, tr_saved>>
    /\ UNCHANGED notTrace

\* a span of the trace in flight starts: on_span_start of both processors
Tr_SpanStart ==
    /\ tr_pc = "tracing"
    /\ tr_spans < MaxSpans
    /\ tr_spans' = tr_spans + 1
    /\ tr_open_spans' = tr_open_spans \cup {tr_spans + 1}
    /\ tr_data' = [tr_data EXCEPT
                      !.spans = Append(@, SpanEvent("start", tr_spans + 1, tr_traces))]
    /\ tr_custom' = [tr_custom EXCEPT
                        !.spans = Append(@, SpanEvent("span_start", tr_spans + 1, tr_traces))]
    /\ UNCHANGED <<tr_pc, tr_file, tr_traces, tr_turn, tr_saved>>
    /\ UNCHANGED notTrace

\* an open span ends: on_span_end of both processors
Tr_SpanEnd ==
    /\ tr_pc = "tracing"
    /\ \E id \in tr_open_spans :
        /\ tr_open_spans' = tr_open_spans \ {id}
        /\ tr_data' = [tr_data EXCEPT !.spans = Append(@, SpanEvent("end", id, tr_traces))]
        /\ tr_custom' = [tr_custom EXCEPT
                            !.spans = Append(@, SpanEvent("span_end", id, tr_traces))]
    /\ UNCHANGED <<tr_pc, tr_file, tr_traces, tr_spans, tr_turn, tr_saved>>
    /\ UNCHANGED notTrace

\* the traced run ends: on_trace_end of both processors; JSONExportProcessor appends
\* the event and writes the whole of its data to the file, in the caller's thread.
\* When the write raises and the exception propagates, the run raises and main()'s
\* except clause ends the demo.
Tr_TraceEnd ==
    /\ tr_pc = "tracing"
    /\ tr_open_spans = {}
    /\ tr_custom' = [tr_custom EXCEPT
                        !.traces = Append(@, TraceEvent("trace_end", tr_traces))]
    /\ tr_data' = [tr_data EXCEPT !.traces = Append(@, TraceEvent("end", tr_traces))]
    /\ \E sink \in SinkOutcomes, dispatch \in DispatchOutcomes :
        /\ tr_file' = WriteFile(tr_file, tr_data', sink)
        /\ IF on_trace_end_raises(sink) /\ dispatch = "propagated"
           THEN tr_turn' = "failed_by_sink" /\ tr_pc' = "failed"
           ELSE tr_turn' = "ok" /\ tr_pc' = "idle"
    /\ UNCHANGED <<tr_open_spans, tr_traces, tr_spans, tr_saved>>
    /\ UNCHANGED notTrace

\* handle_sensitive_data_example, lines 250-260: a generation_span is opened and
\* closed while no trace is active. Whether the SDK hands such a span to the
\* processors is its choice; when it does, both events reach them and no
\* on_trace_end follows.
Tr_SpanOutsideTrace ==
    /\ tr_pc = "idle"
    /\ tr_traces >= 1
    /\ tr_spans < MaxSpans
    /\ tr_spans' = tr_spans + 1
    /\ tr_data' = [tr_data EXCEPT
                      !.spans = @ \o <<SpanEvent("start", tr_spans + 1, 0),
                                       SpanEvent("end", tr_spans + 1, 0)>>]
    /\ tr_custom' = [tr_custom EXCEPT
                        !.spans = @ \o <<SpanEvent("span_start", tr_spans + 1, 0),
                                         SpanEvent("span_end", tr_spans + 1, 0)>>]
    /\ UNCHANGED <<tr_pc, tr_file, tr_open_spans, tr_traces, tr_turn, tr_saved>>
    /\ UNCHANGED notTrace

\* main(), lines 383-384: after the traced runs both processors are shut down;
\* JSONExportProcessor.shutdown prints that the data has been saved and writes nothing
Tr_Shutdown ==
    /\ tr_pc = "idle"
    /\ tr_traces >= 1
    /\ tr_saved' = TRUE
    /\ tr_pc' = "done"
    /\ UNCHANGED <<tr_data, tr_custom, tr_file, tr_open_spans, tr_traces, tr_spans, tr_turn>>
    /\ UNCHANGED notTrace

NextTrace ==
    \/ Tr_TraceStart
    \/ Tr_SpanStart
    \/ Tr_SpanEnd
    \/ Tr_TraceEnd
    \/ Tr_SpanOutsideTrace
    \/ Tr_Shutdown


\* ============================================================ SpecLimit
\* 0208_Runner.py: turn_limit_guardrail counts its invocations on the
\* UserContext and trips above TurnLimit; demonstrate_run_with_config runs
\* the agent behind it with max_turns = RunMaxTurns.

TurnLimit == 10

RunMaxTurns == 3

\* UserContext: conversation_count defaults to 0.
UserContextCount == 0

turn_limit_guardrail_AtLimit(count) ==
    [count |-> count + 1,
     turn_count |-> count + 1,
     tripwire_triggered |-> count + 1 >= TurnLimit]

\* conversation_count += 1; the tripwire is conversation_count > 10.
turn_limit_guardrail(count) ==
    [count |-> count + 1,
     turn_count |-> count + 1,
     tripwire_triggered |-> count + 1 > TurnLimit]

InitLimit ==
    /\ tl_pc = "idle"
    /\ conversation_count = UserContextCount
    /\ tl_trip_log = <<>>
    /\ tl_turns = 0
    /\ tl_result = "none"

\* demonstrate_run_with_config: Runner.run starts, the input guardrail
\* runs; a tripped wire raises InputGuardrailTripwireTriggered, which the
\* function catches and reports.
TL_StartRun ==
    /\ tl_pc = "idle"
    /\ Len(tl_trip_log) < MaxGuardCalls
    /\ LET g == turn_limit_guardrail(conversation_count) IN
        /\ conversation_count' = g.count
        /\ tl_trip_log' = Append(tl_trip_log, g.tripwire_triggered)
        /\ IF g.tripwire_triggered
              THEN /\ tl_result' = "guardrail"
                   /\ tl_pc' = "idle"
              ELSE /\ tl_result' = tl_result
                   /\ tl_pc' = "running"
    /\ tl_turns' = 0
    /\ UNCHANGED notLimit

\* a model turn that does not produce the final output
TL_ModelTurn ==
    /\ tl_pc = "running"
    /\ tl_turns < RunMaxTurns
    /\ tl_turns' = tl_turns + 1
    /\ UNCHANGED <<tl_pc, conversation_count, tl_trip_log, tl_result>>
    /\ UNCHANGED notLimit

\* the next model turn produces the final output
TL_RunReturns ==
    /\ tl_pc = "running"
    /\ tl_turns < RunMaxTurns
    /\ tl_result' = "result"
    /\ tl_pc' = "idle"
    /\ UNCHANGED <<conversation_count, tl_trip_log, tl_turns>>
    /\ UNCHANGED notLimit

\* except MaxTurnsExceeded
TL_MaxTurnsExceeded ==
    /\ tl_pc = "running"
    /\ tl_turns = RunMaxTurns
    /\ tl_result' = "max_turns"
    /\ tl_pc' = "idle"
    /\ UNCHANGED <<conversation_count, tl_trip_log, tl_turns>>
    /\ UNCHANGED notLimit

\* except Exception
TL_RunRaises ==
    /\ tl_pc = "running"
    /\ tl_result' = "error"
    /\ tl_pc' = "idle"
    /\ UNCHANGED <<conversation_count, tl_trip_log, tl_turns>>
    /\ UNCHANGED notLimit

NextLimit ==
    \/ TL_StartRun
    \/ TL_ModelTurn
    \/ TL_RunReturns
    \/ TL_MaxTurnsExceeded
    \/ TL_RunRaises


\* ============================================================ SpecPar
\* 0402_Orchestration.py: parallel_orchestration gathers three runs with
\* return_exceptions=True and returns the outputs of those that did not raise.

\* the keys of results, one per gathered run
ParAgents == {"research", "writing", "analysis"}

ParOutputs == {"text_a", "text_b"}

\* what asyncio.gather holds for one run: nothing yet, a RunResult with its
\* final_output, or the exception the run raised
PendingRun == [state |-> "pending", final_output |-> "none"]
RunResult(out) == [state |-> "ok", final_output |-> out]
RunException == [state |-> "raised", final_output |-> "none"]

KeepsResultAlways(r) == TRUE
\* if not isinstance(x_result, Exception)
KeepsResult(r) == r.state # "raised"

\* results after the three ifs
ParResults(runs) ==
    [k \in {a \in ParAgents : KeepsResult(runs[a])} |-> runs[k].final_output]

NoParReturn == [returned |-> FALSE, success |-> FALSE, results |-> <<>>,
                agents_executed |-> 0]

InitPar ==
    /\ par_pc = "idle"
    /\ par_runs = [a \in ParAgents |-> PendingRun]
    /\ par_return = NoParReturn
    /\ par_log = <<>>
    /\ par_calls = 0

\* the call, up to the await of asyncio.gather
Par_Start ==
    /\ par_pc = "idle"
    /\ par_calls < MaxParCalls
    /\ par_calls' = par_calls + 1
    /\ par_log' = Append(par_log, "start")
    /\ par_runs' = [a \in ParAgents |-> PendingRun]
    /\ par_return' = NoParReturn
    /\ par_pc' = "gathering"
    /\ UNCHANGED notPar

\* one of the gathered runs returns its result
Par_RunReturns ==
    /\ par_pc = "gathering"
    /\ \E a \in ParAgents, out \in ParOutputs :
        /\ par_runs[a] = PendingRun
        /\ par_runs' = [par_runs EXCEPT ![a] = RunResult(out)]
    /\ UNCHANGED <<par_pc, par_return, par_log, par_calls>>
    /\ UNCHANGED notPar

\* one of the gathered runs raises; gather keeps the exception as its result
Par_RunRaises ==
    /\ par_pc = "gathering"
    /\ \E a \in ParAgents :
        /\ par_runs[a] = PendingRun
        /\ par_runs' = [par_runs EXCEPT ![a] = RunException]
    /\ UNCHANGED <<par_pc, par_return, par_log, par_calls>>
    /\ UNCHANGED notPar

\* gather returns once all three runs are done; the results are collected,
\* logged and returned
Par_Gathered ==
    /\ par_pc = "gathering"
    /\ \A a \in ParAgents : par_runs[a] # PendingRun
    /\ LET res == ParResults(par_runs) IN
        /\ par_log' = Append(par_log, Cardinality(DOMAIN res))
        /\ par_return' = [returned |-> TRUE, success |-> TRUE, results |-> res,
                          agents_executed |-> Cardinality(DOMAIN res)]
    /\ par_pc' = "idle"
    /\ UNCHANGED <<par_runs, par_calls>>
    /\ UNCHANGED notPar

NextPar ==
    \/ Par_Start
    \/ Par_RunReturns
    \/ Par_RunRaises
    \/ Par_Gathered


\* ============================================================ SpecRag
\* sb-task-ragtest: the three functions that poll the hosted service until
\* an object leaves its working status. The service is the environment: a
\* retrieve returns any status the object can have moved to.

RagFunctions == {"setup_vector_store", "run_rag_query", "simple_rag_query"}

\* statuses of a vector store and of an assistant run; all but the working
\* ones are final
StoreStatuses == {"in_progress", "completed", "expired", "failed", "cancelled"}
RunStatuses == {"queued", "in_progress", "cancelling", "requires_action",
                "completed", "failed", "cancelled", "expired", "incomplete"}
WorkingStatuses == {"queued", "in_progress", "cancelling"}

\* what a retrieve can return for an object last seen with status s
Retrieved(all, s) == IF s \in WorkingStatuses \cup {"none"} THEN all ELSE {s}

PollsOnUntilCancelling(status) == status \in {"queued", "in_progress"}
\* while run.status in ['queued', 'in_progress', 'cancelling']
PollsOn(status) == status \in {"queued", "in_progress", "cancelling"}

\* setup_vector_store: if vector_store_status.status == "completed": break
StoreReady(status) == status = "completed"

NoRagReturn == [kind |-> "none", status |-> "none"]
\* run_rag_query, lines 87-92: the first message's text, or the error string
\* with run.status in it
DirectReturn(status) ==
    IF status = "completed" THEN [kind |-> "message", status |-> "none"]
    ELSE [kind |-> "error", status |-> status]
\* simple_rag_query, lines 84-91: the first assistant message of the thread, or
\* the fixed text when there is none
SimpleReturn(has_assistant_message) ==
    IF has_assistant_message THEN [kind |-> "message", status |-> "none"]
    ELSE [kind |-> "no_answer", status |-> "none"]

InitRag ==
    /\ rag_fn = "none"
    /\ rag_pc = "idle"
    /\ rag_status = "none"
    /\ rag_polls = 0
    /\ rag_return = NoRagReturn

\* one of the functions is called and reaches its wait loop;
\* runs.create returns the run with its first status
Rag_Call ==
    /\ rag_pc \in {"idle", "returned"}
    /\ \E fn \in RagFunctions :
        /\ rag_fn' = fn
        /\ IF fn = "setup_vector_store"
           THEN rag_status' = "none"
           ELSE rag_status' \in RunStatuses
    /\ rag_polls' = 0
    /\ rag_return' = NoRagReturn
    /\ rag_pc' = "polling"
    /\ UNCHANGED notRag

\* setup_vector_store, lines 54-60: retrieve the store; return its id when it
\* is completed, else sleep and go round again
VS_Retrieve ==
    /\ rag_fn = "setup_vector_store"
    /\ rag_pc = "polling"
    /\ rag_polls < MaxPolls
    /\ rag_polls' = rag_polls + 1
    /\ rag_status' \in Retrieved(StoreStatuses, rag_status)
    /\ IF StoreReady(rag_status')
       THEN /\ rag_pc' = "returned"
            /\ rag_return' = [kind |-> "store_id", status |-> "none"]
       ELSE UNCHANGED <<rag_pc, rag_return>>
    /\ UNCHANGED rag_fn
    /\ UNCHANGED notRag

\* the body of the while loop of run_rag_query and of simple_rag_query
Run_Retrieve ==
    /\ rag_fn \in {"run_rag_query", "simple_rag_query"}
    /\ rag_pc = "polling"
    /\ PollsOn(rag_status)
    /\ rag_polls < MaxPolls
    /\ rag_polls' = rag_polls + 1
    /\ rag_status' \in Retrieved(RunStatuses, rag_status)
    /\ UNCHANGED <<rag_fn, rag_pc, rag_return>>
    /\ UNCHANGED notRag

\* run_rag_query leaves the loop and returns
Direct_Return ==
    /\ rag_fn = "run_rag_query"
    /\ rag_pc = "polling"
    /\ ~PollsOn(rag_status)
    /\ rag_return' = DirectReturn(rag_status)
    /\ rag_pc' = "returned"
    /\ UNCHANGED <<rag_fn, rag_status, rag_polls>>
    /\ UNCHANGED notRag

\* simple_rag_query leaves the loop, lists the thread's messages and returns
Simple_Return ==
    /\ rag_fn = "simple_rag_query"
    /\ rag_pc = "polling"
    /\ ~PollsOn(rag_status)
    /\ \E has_assistant_message \in BOOLEAN :
        /\ rag_return' = SimpleReturn(has_assistant_message)
    /\ rag_pc' = "returned"
    /\ UNCHANGED <<rag_fn, rag_status, rag_polls>>
    /\ UNCHANGED notRag

NextRag ==
    \/ Rag_Call
    \/ VS_Retrieve
    \/ Run_Retrieve
    \/ Direct_Return
    \/ Simple_Return


\* ============================================================ SpecDemo
\* 0403_Model.py: main() runs the six demonstrations in order, keeps what
\* each returns, and counts the entries whose "success" is true.

\* len(demonstrations)
NumDemos == 6

\* the demonstrations that make one guarded attempt and return "success"
SingleAttemptDemos == {1, 2, 5}
\* the demonstrations that loop over test cases and return only "results"
MultiRunDemos == {3, 4}
\* len(test_cases) of demo_method3_agent_specific, len(complex_tasks) of
\* demo_model_mixing
RunsOf(d) == IF d = 3 THEN 4 ELSE 3

\* what a demonstration returns, as far as the summary reads it: whether the
\* dict has a "success" key, and its value
WithSuccess(d, ok) == [method |-> d, has_success |-> TRUE, success |-> ok]
WithoutSuccess(d) == [method |-> d, has_success |-> FALSE, success |-> FALSE]

\* demo_method3_agent_specific, demo_model_mixing: {"method", "results"}
MultiRunResult(d, failed) == WithoutSuccess(d)

\* handle_common_provider_issues: "success": len(solutions) > 0
ProviderIssuesResult(d, solutions) == WithSuccess(d, solutions > 0)

\* result.get("success", False)
Reported(result) == result.has_success /\ result.success

InitDemo ==
    /\ dm_next = 1
    /\ results_summary = <<>>
    /\ dm_clean = <<>>
    /\ successful_demos = 0
    /\ dm_printed = FALSE

\* demo_method1_global_client, demo_method2_runner_provider,
\* demo_api_compatibility: the try block ends, or the except clause returns
\* success False
Demo_SingleAttempt ==
    /\ dm_next \in SingleAttemptDemos
    /\ \E ok \in BOOLEAN :
        /\ results_summary' = Append(results_summary, WithSuccess(dm_next, ok))
        /\ dm_clean' = Append(dm_clean, ok)
    /\ dm_next' = dm_next + 1
    /\ UNCHANGED <<successful_demos, dm_printed>>
    /\ UNCHANGED notDemo

\* demo_method3_agent_specific, demo_model_mixing: each test case's run
\* returns or raises, the outcome is kept in the inner results list
Demo_MultiRun ==
    /\ dm_next \in MultiRunDemos
    /\ \E failed \in 0..RunsOf(dm_next) :
        /\ results_summary' = Append(results_summary, MultiRunResult(dm_next, failed))
        /\ dm_clean' = Append(dm_clean, failed = 0)
    /\ dm_next' = dm_next + 1
    /\ UNCHANGED <<successful_demos, dm_printed>>
    /\ UNCHANGED notDemo

\* handle_common_provider_issues: three guarded blocks, each adding to
\* solutions unless it raises (the first adds two entries, the others one)
Demo_ProviderIssues ==
    /\ dm_next = NumDemos
    /\ \E e1, e2, e3 \in BOOLEAN :
        LET solutions == (IF e1 THEN 0 ELSE 2) + (IF e2 THEN 0 ELSE 1)
                         + (IF e3 THEN 0 ELSE 1)
        IN /\ results_summary' =
                  Append(results_summary, ProviderIssuesResult(dm_next, solutions))
           /\ dm_clean' = Append(dm_clean, ~(e1 \/ e2 \/ e3))
    /\ dm_next' = dm_next + 1
    /\ UNCHANGED <<successful_demos, dm_printed>>
    /\ UNCHANGED notDemo

\* main(), lines 526-538: the summary loop and the "N/6" line
Demo_Summary ==
    /\ dm_next = NumDemos + 1
    /\ ~dm_printed
    /\ successful_demos' =
           Cardinality({i \in DOMAIN results_summary : Reported(results_summary[i])})
    /\ dm_printed' = TRUE
    /\ UNCHANGED <<dm_next, results_summary, dm_clean>>
    /\ UNCHANGED notDemo

NextDemo ==
    \/ Demo_SingleAttempt
    \/ Demo_MultiRun
    \/ Demo_ProviderIssues
    \/ Demo_Summary

\* ============================================================ SpecCS, continued
InitCS ==
    /\ cs_pc = "input"
    /\ current_agent = TriageAgent
    /\ input_items = <<>>
    /\ context = AirlineAgentContext
    /\ cs_turn = 0
    /\ run_agent = TriageAgent
    /\ run_input = <<>>
    /\ new_items = <<>>
    /\ run_turns = 0
    /\ active = {TriageAgent}
    /\ assert_failed = FALSE

\* main(), lines 148-152: read a message, append it, start Runner.run
CS_UserInput ==
    /\ ReadsInput(cs_pc)
    /\ cs_turn < MaxTurnsCS
    /\ cs_turn' = cs_turn + 1
    /\ input_items' = Append(input_items, UserItem(cs_turn + 1))
    /\ run_input' = input_items'
    /\ run_agent' = current_agent
    /\ new_items' = <<>>
    /\ run_turns' = 0
    /\ active' = {current_agent}
    /\ cs_pc' = "running"
    /\ UNCHANGED <<current_agent, context, assert_failed>>
    /\ UNCHANGED notCS

\* the run's agent calls one of its tools (ToolCallItem, ToolCallOutputItem)
CS_ToolCall ==
    /\ cs_pc = "running"
    /\ run_turns < MaxRunSteps
    /\ \E t \in Tools(run_agent) :
        /\ new_items' = new_items \o <<RunItem("tool_call", run_agent, cs_turn),
                                       RunItem("tool_output", run_agent, cs_turn)>>
        /\ IF t = "update_seat"
           THEN /\ context' = update_seat(context)
                /\ assert_failed' = (assert_failed \/ context.flight_number = "None")
           ELSE UNCHANGED <<context, assert_failed>>
    /\ run_turns' = run_turns + 1
    /\ UNCHANGED <<cs_pc, current_agent, input_items, cs_turn, run_agent, run_input, active>>
    /\ UNCHANGED notCS

\* the run's agent hands off to one of its handoff targets
CS_Handoff ==
    /\ cs_pc = "running"
    /\ run_turns < MaxRunSteps
    /\ \E b \in Handoffs(run_agent) :
        /\ new_items' = new_items \o <<RunItem("handoff_call", run_agent, cs_turn),
                                       RunItem("handoff_output", run_agent, cs_turn)>>
        /\ context' = OnHandoff(run_agent, b, context)
        /\ active' = HandoffSwitch(active, run_agent, b)
        /\ run_agent' = b
    /\ run_turns' = run_turns + 1
    /\ UNCHANGED <<cs_pc, current_agent, input_items, cs_turn, run_input, assert_failed>>
    /\ UNCHANGED notCS

\* the run's agent answers with a message: Runner.run returns, and main() prints
\* the new items and keeps the result for the next turn (lines 155-170)
CS_FinalMessage ==
    /\ cs_pc = "running"
    /\ LET items == Append(new_items, RunItem("message", run_agent, cs_turn))
       IN /\ new_items' = items
          /\ input_items' = ToInputList(run_input, items)
    /\ current_agent' = NextTurnAgent(run_agent)
    /\ cs_pc' = "input"
    /\ UNCHANGED <<context, cs_turn, run_agent, run_input, run_turns, active, assert_failed>>
    /\ UNCHANGED notCS

\* Runner.run raises (MaxTurnsExceeded, an API error, ...): main() has no handler,
\* the exception leaves the while loop and asyncio.run, and the process ends
CS_RunRaises ==
    /\ cs_pc = "running"
    /\ cs_pc' = "crashed"
    /\ UNCHANGED <<current_agent, input_items, context, cs_turn, run_agent, run_input,
                   new_items, run_turns, active, assert_failed>>
    /\ UNCHANGED notCS

NextCS ==
    \/ CS_UserInput
    \/ CS_ToolCall
    \/ CS_Handoff
    \/ CS_FinalMessage
    \/ CS_RunRaises

\* the scripts are separate processes: each specification starts its own script in
\* any of its initial states and leaves the others at rest in their first
RestGuard == InitGuard /\ g_script = "0206"
RestHist == hist = <<>> /\ hist_is_tuple = TRUE /\ hist_op = "none" /\ hist_out = <<>>

InitSpecCS == InitCS /\ InitConv /\ RestGuard /\ InitOrch /\ RestHist /\ InitTrace /\ InitLimit /\ InitPar /\ InitRag /\ InitDemo
InitSpecConv == InitConv /\ InitCS /\ RestGuard /\ InitOrch /\ RestHist /\ InitTrace /\ InitLimit /\ InitPar /\ InitRag /\ InitDemo
InitSpecGuard == InitGuard /\ InitCS /\ InitConv /\ InitOrch /\ RestHist /\ InitTrace /\ InitLimit /\ InitPar /\ InitRag /\ InitDemo
InitSpecOrch == InitOrch /\ InitCS /\ InitConv /\ RestGuard /\ RestHist /\ InitTrace /\ InitLimit /\ InitPar /\ InitRag /\ InitDemo
InitSpecHist == InitHist /\ InitCS /\ InitConv /\ RestGuard /\ InitOrch /\ InitTrace /\ InitLimit /\ InitPar /\ InitRag /\ InitDemo
InitSpecTrace == InitTrace /\ InitCS /\ InitConv /\ RestGuard /\ InitOrch /\ RestHist /\ InitLimit /\ InitPar /\ InitRag /\ InitDemo
InitSpecLimit == InitLimit /\ InitTrace /\ InitCS /\ InitConv /\ RestGuard /\ InitOrch /\ RestHist /\ InitPar /\ InitRag /\ InitDemo
InitSpecPar == InitPar /\ InitLimit /\ InitTrace /\ InitCS /\ InitConv /\ RestGuard /\ InitOrch /\ RestHist /\ InitRag /\ InitDemo
InitSpecRag == InitRag /\ InitPar /\ InitLimit /\ InitTrace /\ InitCS /\ InitConv /\ RestGuard /\ InitOrch /\ RestHist /\ InitDemo
InitSpecDemo == InitDemo /\ InitRag /\ InitPar /\ InitLimit /\ InitTrace /\ InitCS /\ InitConv /\ RestGuard /\ InitOrch /\ RestHist

SpecCS == InitSpecCS /\ [][NextCS]_vars
SpecConv == InitSpecConv /\ [][NextConv]_vars
SpecGuard == InitSpecGuard /\ [][NextGuard]_vars
SpecOrch == InitSpecOrch /\ [][NextOrch]_vars
SpecHist == InitSpecHist /\ [][NextHist]_vars
SpecTrace == InitSpecTrace /\ [][NextTrace]_vars
SpecLimit == InitSpecLimit /\ [][NextLimit]_vars
SpecPar == InitSpecPar /\ [][NextPar]_vars
SpecRag == InitSpecRag /\ [][NextRag]_vars
SpecDemo == InitSpecDemo /\ [][NextDemo]_vars

\* ============================================================ claims

\* ---- C1 (SpecConv): a turn whose input guard verdict is blocked leaves the session
\* history exactly as it was before the turn: both the list kept as model input
\* (current_input) and the recorded conversation_history are unchanged, so their
\* lengths are unchanged too.
LastError == conv_errors[Len(conv_errors)]
InputBlockedTurn ==
    /\ conv_pc = "ended"
    /\ conv_errors # <<>>
    /\ LastError.error = "InputGuardrailTripwireTriggered"
C1_BlockedTurnRolledBack ==
    InputBlockedTurn =>
        /\ current_input = conv_before.input
        /\ conversation_history = conv_before.history
\* a blocked second or third turn, with history from the accepted turns before it
C1_Witness ==
    /\ InputBlockedTurn
    /\ LastError.turn >= 2
    /\ Len(conversation_history) = 2 * (LastError.turn - 1)

\* ---- C2 (SpecConv): in every reachable state the history used as model input for
\* later turns (current_input) and the recorded conversation_history hold no item of
\* a turn whose guard verdict (input or output) was blocked; such a turn is found
\* only in the printed error lines.
BlockedTurns ==
    {conv_errors[i].turn : i \in {j \in DOMAIN conv_errors :
                                    conv_errors[j].error \in GuardExceptions}}
C2_NoBlockedItemInHistory ==
    /\ \A i \in DOMAIN current_input.items : current_input.items[i].turn \notin BlockedTurns
    /\ \A i \in DOMAIN conversation_history : conversation_history[i].turn \notin BlockedTurns
\* an output-blocked turn after an accepted one: the audit line is there, the history
\* holds the accepted turn only
C2_Witness ==
    /\ BlockedTurns # {}
    /\ conv_errors # <<>>
    /\ LastError.error = "OutputGuardrailTripwireTriggered"
    /\ ~current_input.isNone
    /\ Len(conversation_history) >= 2

\* ---- C3 (SpecGuard), as amended: when a guardrail's evaluator fails, what the
\* guardrail does depends on the script and not on the direction: both guardrails of
\* 0206 (input and output) do not trigger, both guardrails of 0401 trigger.
C3_FailurePolicyPerScript ==
    /\ g_in.output_info = "error" => (g_in.tripwire_triggered <=> g_script = "0401")
    /\ g_out.output_info = "error" => (g_out.tripwire_triggered <=> g_script = "0401")
\* an input evaluator failed in 0401 and the run was blocked for it
C3_Witness ==
    /\ g_script = "0401"
    /\ g_in_eval.raised
    /\ g_in.tripwire_triggered
    /\ g_log # <<>>
    /\ g_log[Len(g_log)] = "input_guardrail_triggered"
\* C3 as the spec states it: an input check fails open, an output check fails closed
C3_InputOpenOutputClosed ==
    /\ g_in.output_info = "error" => ~g_in.tripwire_triggered
    /\ g_out.output_info = "error" => g_out.tripwire_triggered

\* ---- C4 (SpecCS): every failure during a turn resolves to a terminal per-turn state;
\* no failure propagates as an unhandled fault that ends the process.
C4_NoUnhandledFault == cs_pc # "crashed"

C9_HistoryAppendOnly == [][IsPrefix(input_items, input_items')]_vars
\* a second turn has been answered on top of the first turn's items
C9_Witness ==
    /\ cs_pc = "input"
    /\ cs_turn = 2
    /\ Len(input_items) >= 4
    /\ input_items[1] = UserItem(1)

\* ---- C5 (SpecOrch), as amended: within a code_orchestration call the steps are
\* completed only in the order classification, specialist, quality evaluation,
\* improvement: no specialist returns before the classification, no evaluation before
\* the specialist, no improvement without an evaluation, and success is returned only
\* after the specialist has returned.
StepRank(step) ==
    CASE step = "classified" -> 1
      [] step = "handled" -> 2
      [] step = "evaluated" -> 3
      [] step = "improved" -> 4
      [] OTHER -> 5
Done(step) == \E i \in DOMAIN orch_steps : orch_steps[i] = step
C5_StepOrder ==
    /\ \A i, j \in DOMAIN orch_steps : i < j => StepRank(orch_steps[i]) < StepRank(orch_steps[j])
    /\ orch_pc = "handling" => Done("classified")
    /\ Done("handled") => Done("classified")
    /\ Done("evaluated") => Done("handled")
    /\ Done("improved") => Done("evaluated")
    /\ orch_return.success => Done("handled")
\* a low-complexity request returned as a success straight from the specialist step
C5_Witness ==
    /\ orch_pc = "returned"
    /\ orch_return.success
    /\ classification.complexity = "low"
    /\ orch_steps = <<"classified", "handled">>
\* C5 as the spec states it: a specialist is invoked only after an input guard check
\* and the classification, and success (ACCEPTED) is reached only from the output
\* check (the quality evaluation)
C5_AcceptedOnlyFromOutputChecked ==
    /\ orch_pc = "handling" => (Done("input_checked") /\ Done("classified"))
    /\ orch_return.success => orch_steps[Len(orch_steps)] = "evaluated"

\* ---- C6 (SpecOrch), as amended: the improvement re-dispatch runs at most once per
\* request, so re-dispatch cannot loop; a request whose improvement run returned ends
\* as a success without another evaluation, and a request whose improvement run failed
\* ends with success=False and the exception's text as its error.
Improvements == Cardinality({i \in DOMAIN orch_steps : orch_steps[i] = "improved"})
ImprovementFailed ==
    /\ orch_pc = "returned"
    /\ Len(orch_steps) >= 2
    /\ orch_steps[Len(orch_steps)] = "failed"
    /\ orch_steps[Len(orch_steps) - 1] = "evaluated"
    /\ NeedsImprovement(results)
C6_AtMostOneImprovement ==
    /\ Improvements <= 1
    /\ (orch_pc = "returned" /\ Done("improved")) => orch_return = SuccessReturn
    /\ ImprovementFailed => orch_return = ErrorReturn
\* the one improvement was made and the request returned
C6_Witness ==
    /\ orch_pc = "returned"
    /\ Improvements = 1
    /\ orch_return.success
\* C6 as the spec states it: a request that needs more than the one re-dispatch (its
\* re-dispatched specialist failed too) ends blocked with "escalation_limit_exceeded"
C6_EscalationLimitExceeded ==
    /\ Improvements <= 1
    /\ ImprovementFailed =>
           (~orch_return.success /\ orch_return.error = "escalation_limit_exceeded")

\* ---- C7 (SpecOrch): a request whose category has no branch of its own is dispatched
\* to the fallback specialist (the writing agent), in step 2 and in step 4, and the
\* dispatch itself does not fail the request.
C7_FallbackDispatch ==
    (classification.category \in TaskCategory \ RegisteredCategories) =>
        /\ orch_pc \in {"handling", "improving"} => orch_agent = WritingSpecialist
        /\ orch_steps = <<"classified">> => orch_pc = "handling"
\* a "technical" request being improved by the writing agent
C7_Witness ==
    /\ classification.category = "technical"
    /\ orch_pc = "improving"
    /\ orch_agent = WritingSpecialist

\* ---- C10 (SpecHist): for every N not greater than the number of stored entries, a
\* read bounded by N returns exactly the N most recent entries, in insertion order.
C10_LimitReturnsMostRecent ==
    (hist_op # "none" /\ hist_is_tuple /\ HistLimit(hist_op) <= Len(hist)) =>
        hist_out = LastN(hist, HistLimit(hist_op))

\* ---- C11 (SpecCS): a turn aborted before it completed appends nothing to the
\* history: after the abort input_items is exactly what it was before the turn (the
\* run's input without the turn's user message).
C11_AbortAppendsNothing ==
    cs_pc = "crashed" => input_items = SubSeq(run_input, 1, Len(run_input) - 1)

\* ---- C12 (SpecCS): a session never has more than one turn in flight: a new turn
\* starts (a user message is read) only when no turn was started yet or the previous
\* turn has ended with its final message kept in input_items.
PreviousTurnEnded ==
    \/ cs_turn = 0
    \/ /\ input_items # <<>>
       /\ input_items[Len(input_items)] = [role |-> "message", turn |-> cs_turn]
C12_OneTurnInFlight == [][cs_turn' # cs_turn => PreviousTurnEnded]_vars
\* the second turn is in flight on top of the finished first turn
C12_Witness ==
    /\ cs_pc = "running"
    /\ cs_turn = 2
    /\ Len(input_items) >= 3
    /\ input_items[Len(input_items)] = UserItem(2)
    /\ input_items[Len(input_items) - 1] = [role |-> "message", turn |-> 1]

\* ---- C20 (SpecCS): whenever update_seat runs, flight_number has been set by the
\* seat-booking handoff hook: the assertion never fails, and whenever the run is at,
\* or the next turn starts at, the Seat Booking Agent the flight number is set.
C20_FlightNumberSetBeforeUpdateSeat ==
    /\ ~assert_failed
    /\ (cs_pc = "running" /\ run_agent = SeatBookingAgent) => context.flight_number # "None"
    /\ current_agent = SeatBookingAgent => context.flight_number # "None"
\* update_seat has run in a second turn that started directly at the Seat Booking Agent
C20_Witness ==
    /\ cs_turn = 2
    /\ current_agent = SeatBookingAgent
    /\ cs_pc = "running"
    /\ new_items # <<>>
    /\ new_items[1] = RunItem("tool_call", SeatBookingAgent, 2)
    /\ context.seat_number = "SEAT"
    /\ context.flight_number = "FLT"

\* ---- C13 (SpecGuard), as amended: when a guardrail's evaluator returns a verdict, the
\* guardrail blocks exactly when the verdict flags the payload and reaches the
\* guardrail's own threshold: a confidence above 0.7 for the input guardrail of 0206
\* (0.7 itself does not block), a confidence of 0.7 or more for the input guardrail of
\* 0401, severity high for the output guardrail of 0206, severity medium or high for
\* the output guardrail of 0401. When the evaluator fails no predicate has triggered,
\* and the guardrails of 0401 block all the same (those of 0206 do not).
InputThresholdReached ==
    IF g_script = "0206" THEN g_in_eval.score > ConfidenceThreshold
    ELSE g_in_eval.score >= ConfidenceThreshold
OutputThresholdReached ==
    IF g_script = "0206" THEN g_out_eval.severity = "high"
    ELSE g_out_eval.severity \in {"medium", "high"}
C13_BlocksIffVerdictReachesThreshold ==
    /\ (g_in.ran /\ ~g_in_eval.raised) =>
           (g_in.tripwire_triggered <=> (g_in_eval.flagged /\ InputThresholdReached))
    /\ (g_out.ran /\ ~g_out_eval.raised) =>
           (g_out.tripwire_triggered <=> (g_out_eval.flagged /\ OutputThresholdReached))
    /\ (g_in.ran /\ g_in_eval.raised) => (g_in.tripwire_triggered <=> g_script = "0401")
    /\ (g_out.ran /\ g_out_eval.raised) => (g_out.tripwire_triggered <=> g_script = "0401")
\* 0206: an input flagged with confidence exactly 0.7 was let through to the agent
C13_Witness ==
    /\ g_script = "0206"
    /\ g_pc = "agent"
    /\ g_in.ran
    /\ g_in_eval.flagged
    /\ g_in_eval.score = ConfidenceThreshold
    /\ ~g_in.tripwire_triggered
\* C13 as the spec states it: a check blocks exactly when a predicate flags the payload
\* and reaches (is at or above) its threshold
C13_BlocksIffThresholdReached ==
    /\ g_in.ran =>
           (g_in.tripwire_triggered <=>
                (g_in_eval.flagged /\ g_in_eval.score >= ConfidenceThreshold))
    /\ g_out.ran =>
           (g_out.tripwire_triggered <=> (g_out_eval.flagged /\ OutputThresholdReached))

\* ---- C14 (SpecOrch), as amended: when the classification step fails,
\* code_orchestration does not raise to its caller: it returns success=False with an
\* error, no category is assigned and no specialist is dispatched.
ClassificationFailed == orch_steps = <<"failed">>
C14_ClassifierFailureReturnsError ==
    ClassificationFailed =>
        /\ orch_pc = "returned"
        /\ orch_return.returned
        /\ ~orch_return.success
        /\ classification = NoClassification
        /\ ~results.classification
        /\ ~results.specialist_output
        /\ orch_agent = "none"
\* the classifier's run raised and the call returned its error
C14_Witness ==
    /\ ClassificationFailed
    /\ orch_pc = "returned"
    /\ execution_log[Len(execution_log)] = "Code Orchestration error"
\* C14 as the spec states it: a failed classification yields the default category with
\* confidence 0 and the request is still dispatched to a handler
C14_ClassifierFailureStillDispatches ==
    ClassificationFailed =>
        /\ classification.category = "general"
        /\ classification.confidence = 0
        /\ orch_agent # "none"

\* ---- C15 (SpecOrch), as amended: a completed classification holds exactly one
\* category of TaskCategory, and the specialist is chosen by that category whatever
\* the classification's confidence: a low confidence does not change the category.
C15_CategoryIgnoresConfidence ==
    Done("classified") =>
        /\ classification.category \in TaskCategory
        /\ orch_pc \in {"handling", "improving"} =>
               orch_agent = SelectSpecialist(classification.category)
\* a research request classified with confidence 0.3 is with the research agent
C15_Witness ==
    /\ orch_pc = "handling"
    /\ classification.category = "research"
    /\ classification.confidence = 30
    /\ orch_agent = ResearchSpecialist
\* C15 as the spec states it: the category is one of the static set and is the default
\* category whenever the confidence is below 0.5
C15_LowConfidenceDefaultsToGeneral ==
    Done("classified") =>
        /\ classification.category \in TaskCategory \cup {"general"}
        /\ classification.confidence < 50 => classification.category = "general"

\* ---- C16 (SpecOrch), as amended: a call that fails returns success=False together
\* with the text of the exception that ended it (str(e)) as its error, whichever step
\* raised; a call that succeeds returns no error.
C16_FailureReturnsExceptionText ==
    /\ (orch_return.returned /\ ~orch_return.success) =>
           /\ orch_return.error = "exception_text"
           /\ orch_steps[Len(orch_steps)] = "failed"
    /\ (orch_return.returned /\ orch_return.success) => orch_return.error = "none"
    /\ (orch_pc = "returned" /\ Done("failed")) => (orch_return.returned /\ ~orch_return.success)
\* the specialist's run raised and the call returned the exception's text
C16_Witness ==
    /\ orch_pc = "returned"
    /\ orch_steps = <<"classified", "failed">>
    /\ orch_return.error = "exception_text"
\* C16 as the spec states it: what a failed call returns to its caller does not contain
\* the text of the internal exception
C16_NoExceptionTextReturned ==
    (orch_return.returned /\ ~orch_return.success) => orch_return.error # "exception_text"

\* ---- C18 (SpecOrch), as amended: when the evaluation scores the specialist's output
\* below 7.0 and the improvement run returns, the call returns success after exactly
\* one improvement: the steps are classification, specialist, evaluation, improvement,
\* the execution log holds exactly one "Improvement iteration completed" entry, and
\* the improvement is made by the specialist of the same category.
ImprovementLogEntries ==
    Cardinality({i \in DOMAIN execution_log :
                    execution_log[i] = "Improvement iteration completed"})
ImprovedAndReturned == orch_pc = "returned" /\ Done("improved")
C18_OneImprovementThenSuccess ==
    /\ ImprovedAndReturned =>
           /\ orch_return.success
           /\ orch_steps = <<"classified", "handled", "evaluated", "improved">>
           /\ ImprovementLogEntries = 1
           /\ results.quality_assessment.overall_score < QualityThreshold
    /\ orch_pc = "improving" => orch_agent = SelectSpecialist(classification.category)
\* a high-complexity analysis request scored 5.5 and was improved once
C18_Witness ==
    /\ ImprovedAndReturned
    /\ classification.category = "analysis"
    /\ classification.complexity = "high"
    /\ results.quality_assessment.overall_score = 55
    /\ results.improved_output
\* C18 as the spec states it: the turn ends accepted after one escalation and
\* escalation_count=1 is recorded in the audit trail
C18_EscalationCountRecorded ==
    ImprovedAndReturned =>
        /\ orch_return.success
        /\ \E i \in DOMAIN execution_log : execution_log[i] = "escalation_count=1"

\* ---- C17 (SpecTrace): recording to the trace sink is fire-and-forget: when the sink
\* is unavailable or a write to it fails, the run being traced does not fail for it.
C17_SinkFailureNeverFailsTurn == tr_turn # "failed_by_sink"

\* ---------------------------------------------------------------- C21
\* C21: on one UserContext the turn-limit guardrail counts every invocation,
\* blocked ones included; its first TurnLimit invocations do not trip and
\* every later invocation trips.
C21_TripsExactlyAfterTurnLimit ==
    /\ conversation_count = UserContextCount + Len(tl_trip_log)
    /\ \A i \in DOMAIN tl_trip_log : tl_trip_log[i] <=> (i > TurnLimit)

\* the guardrail has passed its 10th invocation and tripped on the 11th and
\* on the 12th, each of them counted
C21_Witness ==
    /\ Len(tl_trip_log) >= TurnLimit + 2
    /\ ~tl_trip_log[TurnLimit]
    /\ tl_trip_log[TurnLimit + 1]
    /\ tl_trip_log[TurnLimit + 2]
    /\ conversation_count = TurnLimit + 2
    /\ tl_result = "guardrail"

\* ---------------------------------------------------------------- C22
\* C22: a turn of the customer-service loop starts at the agent that finished
\* the previous turn (the first at the Triage Agent), and its input is the
\* previous turn's whole item list (that turn's input followed by its new
\* items) followed by the new user message.
C22_TurnContinuesPreviousTurn ==
    [][(cs_pc = "input" /\ cs_pc' = "running") =>
          /\ run_agent' = (IF cs_turn = 0 THEN TriageAgent ELSE run_agent)
          /\ run_input' = Append(IF cs_turn = 0 THEN <<>>
                                 ELSE run_input \o ToInputItems(new_items),
                                 UserItem(cs_turn + 1))]_vars

\* the second turn has just started, at an agent other than the Triage Agent,
\* with the first turn's items and the second user message as its input
C22_Witness ==
    /\ cs_pc = "running"
    /\ cs_turn = 2
    /\ run_turns = 0
    /\ run_agent # TriageAgent
    /\ Len(run_input) >= 5
    /\ run_input[Len(run_input)] = UserItem(2)

\* ---------------------------------------------------------------- C23
\* C23: once the specialist of step 2 has returned, the quality evaluation is run
\* exactly when the classified complexity is medium or high; the improvement step
\* is run exactly when an assessment was produced and its overall_score is below
\* 7.0; a low-complexity request gets neither, and no request is improved twice.
LastStepFailedAfter(step) ==
    /\ Len(orch_steps) >= 2
    /\ orch_steps[Len(orch_steps)] = "failed"
    /\ orch_steps[Len(orch_steps) - 1] = step
EvaluationRun ==
    orch_pc = "evaluating" \/ Done("evaluated") \/ LastStepFailedAfter("handled")
ImprovementRun ==
    orch_pc = "improving" \/ Done("improved") \/ LastStepFailedAfter("evaluated")
C23_EvaluationAndImprovementConditions ==
    /\ Done("handled") =>
           (EvaluationRun <=> classification.complexity \in {"medium", "high"})
    /\ ~Done("handled") => ~EvaluationRun
    /\ Done("evaluated") =>
           (ImprovementRun <=> results.quality_assessment.overall_score < 70)
    /\ ~Done("evaluated") => ~ImprovementRun
    /\ classification.complexity = "low" => (~EvaluationRun /\ ~ImprovementRun)
    /\ Improvements <= 1

\* a medium-complexity request was evaluated at exactly 7.0 and returned without
\* an improvement run
C23_Witness ==
    /\ orch_pc = "returned"
    /\ classification.complexity = "medium"
    /\ orch_steps = <<"classified", "handled", "evaluated">>
    /\ results.quality_assessment.overall_score = 70
    /\ orch_return.success

\* ---------------------------------------------------------------- C24
\* C24: whatever combination of the three gathered runs returns or raises,
\* parallel_orchestration returns success=True, its results hold exactly the
\* final outputs of the runs that did not raise, and agents_executed is their
\* number.
Succeeded == {a \in ParAgents : par_runs[a].state = "ok"}
C24_ResultsAreTheRunsThatSucceeded ==
    par_return.returned =>
        /\ par_return.success
        /\ DOMAIN par_return.results = Succeeded
        /\ \A a \in Succeeded : par_return.results[a] = par_runs[a].final_output
        /\ par_return.agents_executed = Cardinality(Succeeded)

\* the research run raised, the other two returned, and the call returned two
\* results
C24_Witness ==
    /\ par_return.returned
    /\ par_runs["research"].state = "raised"
    /\ par_runs["writing"].state = "ok"
    /\ par_runs["analysis"].state = "ok"
    /\ par_return.agents_executed = 2
    /\ par_return.success

\* ---------------------------------------------------------------- C25
\* C25: the wait loop of setup_vector_store ends for every status sequence of
\* the store: once the store has been seen in a final status, completed or
\* not (failed, expired, cancelled), the function has left the loop and
\* returned.
C25_WaitEndsAtFinalStatus ==
    (rag_fn = "setup_vector_store" /\ rag_status \in StoreStatuses \ WorkingStatuses)
        => rag_pc = "returned"

\* ---------------------------------------------------------------- C26
\* C26: run_rag_query retrieves the run again only while its status is queued,
\* in_progress or cancelling, and returns on the first status outside that
\* set: the message text only for completed, and for every other status the
\* error string that names it.
C26_ReturnFollowsFinalStatus ==
    [][rag_fn = "run_rag_query" =>
          /\ rag_polls' = rag_polls + 1 =>
                 rag_status \in {"queued", "in_progress", "cancelling"}
          /\ (rag_pc = "polling" /\ rag_pc' = "returned") =>
                 /\ rag_status \notin {"queued", "in_progress", "cancelling"}
                 /\ rag_status' = rag_status
                 /\ rag_return'.kind = "message" <=> rag_status = "completed"
                 /\ rag_status # "completed" =>
                        rag_return' = [kind |-> "error", status |-> rag_status]
          /\ (rag_pc = "polling" /\ rag_status \notin {"queued", "in_progress", "cancelling"})
                 => rag_pc' = "returned"]_vars

\* run_rag_query polled twice and returned the error string for a run that
\* ended in requires_action
C26_Witness ==
    /\ rag_fn = "run_rag_query"
    /\ rag_pc = "returned"
    /\ rag_polls = 2
    /\ rag_status = "requires_action"
    /\ rag_return = [kind |-> "error", status |-> "requires_action"]

\* ---------------------------------------------------------------- C27
\* C27: when JSONExportProcessor.shutdown has reported the data as saved, the
\* file holds exactly the processor's data, whatever events came before the
\* shutdown.
C27_SavedFileEqualsData == tr_saved => tr_file = FileOf(tr_data)

\* ---------------------------------------------------------------- C28
\* C28: the summary holds one entry per demonstration, and the number it
\* reports as successful is the number of demonstrations that ran to their
\* end without an error.
C28_ReportedCountIsCleanCount ==
    /\ Len(results_summary) = Len(dm_clean)
    /\ dm_printed =>
           /\ Len(results_summary) = NumDemos
           /\ successful_demos = Cardinality({i \in DOMAIN dm_clean : dm_clean[i]})

====
